---- MODULE Spec2Model ----
(***************************************************************************)
(* Model of frontend/src/ui/App.tsx: the React component App, its state    *)
(* hooks, and the asynchronous handlers connect, ensureArcNetwork,         *)
(* deployNFT, deployToken, mintNft, mintToken, sendUSDC and swapUSDCtoESC. *)
(*                                                                         *)
(* Every handler is an async function: it runs without interruption up to  *)
(* its next `await`, and resumes when the awaited provider call settles.   *)
(* A handler in flight is a record in `flows`; its field pc names the call *)
(* it is suspended on.  One action of the model is one such run: the       *)
(* settling of the awaited call (with success or with an error), all the   *)
(* code up to the next await and the issue of the next call.               *)
(* The injected wallet and the chain behind it are opaque: any request may *)
(* succeed or fail with any error, and the user may change the wallet's    *)
(* network at any time.                                                    *)
(***************************************************************************)
EXTENDS Integers, Sequences, FiniteSets, TLC

VARIABLES
    hasEthereum,    \* window.ethereum is injected
    walletChain,    \* chain id the wallet is on, as it reports it
    chain,          \* transactions submitted so far: [kind, mined]
    provider,       \* useState provider: 0 is null, else the flow that set it
    signerAddress,  \* useState signerAddress
    busy,           \* useState busy
    deployed,       \* useState deployed: [nft, token], 0 is undefined
    logs,           \* useState logs, head first
    nativeBalance,  \* useState nativeBalance
    sendRecipient,  \* useState sendRecipient
    sendAmount,     \* useState sendAmount
    swapAmount,     \* useState swapAmount
    flows,          \* async handler invocations in flight, by order of start
    done,           \* the handler invocation that returned in the last step
    calc            \* the amounts of one swap: typed, minted, shown

vars == << hasEthereum, walletChain, chain, provider, signerAddress, busy,
           deployed, logs, nativeBalance, sendRecipient, sendAmount,
           swapAmount, flows, done, calc >>

(***************************************************************************)
(* Bounds                                                                  *)
(***************************************************************************)
\* clicks on the buttons (handler invocations, and clicks on a disabled
\* button) in one behaviour
MaxFlows == 3
\* the width in bits of the contract's integers: uint256, scaled to the
\* integers of the model
WordBits == 24
\* the decimals of the native unit and of ESC: 18, scaled likewise
Decimals == 6
\* the largest swap amount, in the smallest native unit
MaxAmount == 200

(***************************************************************************)
(* Strings: a chain id is a sequence of characters                         *)
(***************************************************************************)
ARC_CHAIN_ID_HEX == << "0", "x", "4", "c", "e", "f", "5", "2" >>

\* the networks of the wallet, and the spellings of their ids that the
\* wallet may answer to eth_chainId
OtherChain == << "0", "x", "a", "a", "3", "6", "a", "7" >>
ChainIds   == { ARC_CHAIN_ID_HEX, OtherChain }
UpperHex(id) ==
    [i \in 1..Len(id) |->
        CASE id[i] = "a" -> "A" [] id[i] = "b" -> "B" [] id[i] = "c" -> "C"
          [] id[i] = "d" -> "D" [] id[i] = "e" -> "E" [] id[i] = "f" -> "F"
          [] OTHER -> id[i]]
Spellings(id) == { id, UpperHex(id) }

\* null and undefined, told apart from every string
Null == << "null" >>
Undefined == << "undefined" >>

LowerChar(c) ==
    CASE c = "A" -> "a" [] c = "B" -> "b" [] c = "C" -> "c"
      [] c = "D" -> "d" [] c = "E" -> "e" [] c = "F" -> "f"
      [] c = "X" -> "x" [] OTHER -> c

\* String.prototype.toLowerCase
toLowerCase(str) == [i \in 1..Len(str) |-> LowerChar(str[i])]

\* current?.toLowerCase?.()
OptLowerCase(current) ==
    IF current = Null THEN Undefined ELSE toLowerCase(current)

\* the comparison without toLowerCase
IsArcCaseSensitive(current) == current = ARC_CHAIN_ID_HEX

\* current?.toLowerCase?.() === ARC_CHAIN_ID_HEX
IsArc(current) == OptLowerCase(current) = ARC_CHAIN_ID_HEX

\* the wallet is on the target network
OnTarget == walletChain = ARC_CHAIN_ID_HEX

(***************************************************************************)
(* Errors thrown by the provider.  An error is null or an object with a    *)
(* code and a message; of the message the model keeps its length and the   *)
(* marker text the code searches it for.                                    *)
(***************************************************************************)
NullError == [code |-> 0, has |-> "null", len |-> 0]
UserRejected == [code |-> 4001, has |-> "", len |-> 20]
Unrecognized4902 == [code |-> 4902, has |-> "", len |-> 20]
UnrecognizedText == [code |-> -32603, has |-> "Unrecognized chain", len |-> 20]
LongError == [code |-> -32000, has |-> "", len |-> 181]

\* the errors the provider raises in the model
Errors == { UserRejected, Unrecognized4902, UnrecognizedText, LongError }

\* the length from which getErrorMessage cuts a message
MaxMessage == 180

\* a message: the text it was built from and its length
Literal(text, n) == [text |-> text, len |-> n]

\* getErrorMessage(e)
getErrorMessage(e) ==
    IF e = NullError THEN Literal("Unknown error", 13)
    ELSE IF e.code = 4001 \/ e.has = "ACTION_REJECTED"
         THEN Literal("User rejected in MetaMask", 25)
    ELSE IF e.len > MaxMessage
         THEN Literal("msg.slice", MaxMessage + 1)
    ELSE Literal("msg", e.len)

\* `Failed to switch to Arc Testnet: ${e?.message || 'unknown error'}`
SwitchFailedMessage(e) ==
    IF e = NullError \/ e.len = 0
    THEN Literal("Failed to switch to Arc Testnet: unknown error", 33 + 13)
    ELSE Literal("Failed to switch to Arc Testnet: message", 33 + e.len)

\* err && (err.code === 4902 || err?.message?.includes('Unrecognized chain'))
IsUnrecognizedChain(err) ==
    /\ err # NullError
    /\ (err.code = 4902 \/ err.has = "Unrecognized chain")

(***************************************************************************)
(* The activity log                                                        *)
(***************************************************************************)
NoHref == << "none", 0 >>
\* txLink(hash), addressLink(addr)
txLink(hash) == << "tx", hash >>
addressLink(addr) == << "address", addr >>

\* a LogItem; by is the handler invocation that pushed it
LogItem(type, message, href, by) ==
    [type |-> type, message |-> message, href |-> href, by |-> by]

\* the item added at the end of the log
pushLogAtEnd(prev, item) == Append(prev, item)

\* two items that read the same
SameContent(a, b) ==
    a.type = b.type /\ a.message = b.message /\ a.href = b.href

\* the item added at the head, in place of an earlier item that reads the
\* same
pushLogDeduplicated(prev, item) ==
    << item >> \o SelectSeq(prev, LAMBDA old : ~SameContent(old, item))

\* setLogs(prev => [item, ...prev])
pushLog(prev, item) == << item >> \o prev

(***************************************************************************)
(* Values                                                                  *)
(***************************************************************************)
\* the account the wallet authorizes
Account == "0xA11ce"
\* what is typed in the recipient and amount fields: nothing, or a
\* well-formed address or decimal number
Recipients == { "", "0xB0b" }
AmountTexts == { "", "1" }
\* balances the chain may report, in the smallest unit
Balances == { 7 }

RECURSIVE Pow(_, _)
Pow(b, n) == IF n = 0 THEN 1 ELSE b * Pow(b, n - 1)
\* one whole unit in the smallest unit: 10^18, scaled
Unit == Pow(10, Decimals)
\* type(uint256).max, scaled
MaxUint == Pow(2, WordBits) - 1

\* useState<string>(''): the balance text before any balance was read
NoBalance == << >>

\* ethers.formatUnits(bal, 18): the decimal text of bal / 10^18, its whole
\* part and its fraction digits
formatUnits(bal) == << bal \div Unit, bal % Unit >>

\* ethers.parseUnits(text, 18) throws on a text that is no decimal number
ParseUnitsThrows(text) == text \notin { "1" }
ParseError == [code |-> -2, has |-> "", len |-> 20]

\* JavaScript truthiness of a string, and of an optional address
Truthy(v) == v # ""
IsSet(addr) == addr # 0

(***************************************************************************)
(* Handler invocations                                                     *)
(***************************************************************************)
Slots == 1..MaxFlows

IdleFlow == [id |-> 0, kind |-> "none", pc |-> "idle", reqs |-> << >>,
             tx |-> 0, hash |-> FALSE, offTarget |-> FALSE,
             sawArc |-> FALSE, unrecognized |-> FALSE, target |-> 0,
             readFailed |-> FALSE, button |-> "",
             out |-> "", failedAt |-> ""]
\* what is kept of an invocation that returned
Finished == [IdleFlow EXCEPT !.pc = "done"]

ActionKinds == { "deployNFT", "deployToken", "mintNft", "mintToken",
                 "sendUSDC", "swapUSDCtoESC" }
\* the calls that submit a transaction
TxMethods == { "deploy", "mint", "sendTransaction", "swap" }

Started == { s \in Slots : flows[s].pc # "idle" }
InFlight(s) == flows[s].pc \notin { "idle", "done" }
CanStart == Cardinality(Started) < MaxFlows
NextSlot == Cardinality(Started) + 1

\* the handler calls method m and suspends on it
Issue(f, m) ==
    [f EXCEPT !.pc = m, !.reqs = Append(@, m),
              !.offTarget = @ \/ (m \in TxMethods /\ ~OnTarget)]
\* the retry of wallet_switchEthereumChain, after wallet_addEthereumChain
IssueRetry(f) ==
    [f EXCEPT !.pc = "retry_switchEthereumChain",
              !.reqs = Append(@, "wallet_switchEthereumChain")]
\* the handler returns or throws
Done(f, out) == [f EXCEPT !.pc = "done", !.out = out]
Failed(f) == [f EXCEPT !.pc = "done", !.out = "failed", !.failedAt = f.pc]

New(kind) == [IdleFlow EXCEPT !.id = NextSlot, !.kind = kind]

\* the invocation s goes on as f, or has returned as f
Set(s, f) ==
    /\ flows' = [flows EXCEPT ![s] = IF f.pc = "done" THEN Finished ELSE f]
    /\ done' = IF f.pc = "done" THEN f ELSE IdleFlow

Init ==
    /\ hasEthereum \in BOOLEAN
    /\ walletChain \in ChainIds
    /\ chain = << >>
    /\ provider = 0
    /\ signerAddress = ""
    /\ busy = FALSE
    /\ deployed = [nft |-> 0, token |-> 0]
    /\ logs = << >>
    /\ nativeBalance = NoBalance
    /\ sendRecipient = ""
    /\ sendAmount = ""
    /\ swapAmount = ""
    /\ flows = [s \in Slots |-> IdleFlow]
    /\ done = IdleFlow
    /\ calc = [stage |-> "none", usdcAmount |-> 0, minted |-> 0,
               shown |-> << 0, 0 >>]

(***************************************************************************)
(* The user and the wallet                                                 *)
(***************************************************************************)
\* the user selects another network in the wallet
ChangeNetwork ==
    /\ \E c \in ChainIds \ { walletChain } : walletChain' = c
    /\ UNCHANGED << hasEthereum, chain, provider, signerAddress, busy,
                    deployed, logs, nativeBalance, sendRecipient, sendAmount,
                    swapAmount, flows, calc >>
    /\ done' = IdleFlow

\* onChange of the recipient field, disabled={!provider || busy}
TypeRecipient ==
    /\ ~(provider = 0 \/ busy)
    /\ \E v \in Recipients \ { sendRecipient } : sendRecipient' = v
    /\ UNCHANGED << hasEthereum, walletChain, chain, provider, signerAddress,
                    busy, deployed, logs, nativeBalance, sendAmount,
                    swapAmount, flows, calc >>
    /\ done' = IdleFlow

\* onChange of the send amount field, disabled={!provider || busy}
TypeSendAmount ==
    /\ ~(provider = 0 \/ busy)
    /\ \E v \in AmountTexts \ { sendAmount } : sendAmount' = v
    /\ UNCHANGED << hasEthereum, walletChain, chain, provider, signerAddress,
                    busy, deployed, logs, nativeBalance, sendRecipient,
                    swapAmount, flows, calc >>
    /\ done' = IdleFlow

\* onChange of the swap amount field,
\* disabled={!provider || !deployed.token || busy}
TypeSwapAmount ==
    /\ ~(provider = 0 \/ ~IsSet(deployed.token) \/ busy)
    /\ \E v \in AmountTexts \ { swapAmount } : swapAmount' = v
    /\ UNCHANGED << hasEthereum, walletChain, chain, provider, signerAddress,
                    busy, deployed, logs, nativeBalance, sendRecipient,
                    sendAmount, flows, calc >>
    /\ done' = IdleFlow

(***************************************************************************)
(* ensureArcNetwork(prov), called by connect and by the Switch to Arc      *)
(* button                                                                  *)
(***************************************************************************)
\* connect without its `if (!ok) return`
AfterEnsureUnchecked(f, ok) ==
    IF f.kind = "connect" THEN Issue(f, "getSigner")
    ELSE Done(f, IF ok THEN "success" ELSE "failed")

\* the caller after ensureArcNetwork returned ok: connect goes on to
\* prov.getSigner() if ok and returns if not; the button's handler returns
AfterEnsure(f, ok) ==
    IF f.kind = "connect" /\ ok THEN Issue(f, "getSigner")
    ELSE Done(f, IF ok THEN "success" ELSE "failed")

\* the catch of ensureArcNetwork: one error entry, return false
EnsureCatch(s, e) ==
    /\ logs' = pushLog(logs, LogItem("error", SwitchFailedMessage(e), NoHref, s))
    /\ Set(s, AfterEnsure(Failed(flows[s]), FALSE))

\* await prov.send('eth_chainId', []) settles
EnsureChainId(s) ==
    /\ flows[s].pc = "eth_chainId"
    /\ \/ \E current \in Spellings(walletChain) \cup { Null } :
            /\ LET f == [flows[s] EXCEPT !.sawArc = current \in Spellings(ARC_CHAIN_ID_HEX)]
               IN Set(s, IF IsArc(current) THEN AfterEnsure(f, TRUE)
                  ELSE Issue(f, "wallet_switchEthereumChain"))
            /\ logs' = logs
       \/ \E e \in Errors : EnsureCatch(s, e)
    /\ UNCHANGED << hasEthereum, walletChain, chain, provider, signerAddress,
                    busy, deployed, nativeBalance, sendRecipient, sendAmount,
                    swapAmount, calc >>

\* await prov.send('wallet_switchEthereumChain', ...) settles, first attempt
EnsureSwitch(s) ==
    /\ flows[s].pc = "wallet_switchEthereumChain"
    /\ \/ /\ walletChain' = ARC_CHAIN_ID_HEX
          /\ Set(s, AfterEnsure(flows[s], TRUE))
          /\ logs' = logs
       \/ \E err \in Errors :
            /\ walletChain' = walletChain
            /\ IF IsUnrecognizedChain(err)
               THEN /\ Set(s, Issue([flows[s] EXCEPT !.unrecognized = TRUE],
                                "wallet_addEthereumChain"))
                    /\ logs' = logs
               ELSE EnsureCatch(s, err)
    /\ UNCHANGED << hasEthereum, chain, provider, signerAddress, busy,
                    deployed, nativeBalance, sendRecipient, sendAmount,
                    swapAmount, calc >>

\* ensureArcNetwork returning true after wallet_addEthereumChain, with no
\* second wallet_switchEthereumChain
EnsureAddNoRetry(s) ==
    /\ flows[s].pc = "wallet_addEthereumChain"
    /\ \/ /\ Set(s, AfterEnsure(flows[s], TRUE))
          /\ logs' = logs
       \/ \E e \in Errors : EnsureCatch(s, e)
    /\ UNCHANGED << hasEthereum, walletChain, chain, provider, signerAddress,
                    busy, deployed, nativeBalance, sendRecipient, sendAmount,
                    swapAmount, calc >>

\* await prov.send('wallet_addEthereumChain', [ARC_PARAMS]) settles
EnsureAdd(s) ==
    /\ flows[s].pc = "wallet_addEthereumChain"
    /\ \/ /\ Set(s, IssueRetry(flows[s]))
          /\ logs' = logs
       \/ \E e \in Errors : EnsureCatch(s, e)
    /\ UNCHANGED << hasEthereum, walletChain, chain, provider, signerAddress,
                    busy, deployed, nativeBalance, sendRecipient, sendAmount,
                    swapAmount, calc >>

\* the second await prov.send('wallet_switchEthereumChain', ...) settles
EnsureRetry(s) ==
    /\ flows[s].pc = "retry_switchEthereumChain"
    /\ \/ /\ walletChain' = ARC_CHAIN_ID_HEX
          /\ Set(s, AfterEnsure(flows[s], TRUE))
          /\ logs' = logs
       \/ \E e \in Errors :
            /\ walletChain' = walletChain
            /\ EnsureCatch(s, e)
    /\ UNCHANGED << hasEthereum, chain, provider, signerAddress, busy,
                    deployed, nativeBalance, sendRecipient, sendAmount,
                    swapAmount, calc >>

ensureArcNetwork ==
    \E s \in Slots :
        EnsureChainId(s) \/ EnsureSwitch(s) \/ EnsureAdd(s) \/ EnsureRetry(s)

\* the Switch to Arc button, rendered if provider:
\* onClick={async () => provider && ensureArcNetwork(provider)}
SwitchToArc ==
    /\ provider # 0
    /\ CanStart
    /\ Set(NextSlot, Issue(New("switchToArc"), "eth_chainId"))
    /\ UNCHANGED << hasEthereum, walletChain, chain, provider, signerAddress,
                    busy, deployed, logs, nativeBalance, sendRecipient,
                    sendAmount, swapAmount, calc >>

(***************************************************************************)
(* connect                                                                 *)
(***************************************************************************)
\* connect without the test of window.ethereum
ConnectClickUnchecked ==
    /\ provider = 0
    /\ CanStart
    /\ Set(NextSlot, Issue(New("connect"), "eth_requestAccounts"))
    /\ UNCHANGED << hasEthereum, walletChain, chain, provider, signerAddress,
                    busy, deployed, logs, nativeBalance, sendRecipient,
                    sendAmount, swapAmount, calc >>

\* the Connect MetaMask button, disabled={!!provider}: connect up to its
\* first await
ConnectClick ==
    /\ provider = 0
    /\ CanStart
    /\ Set(NextSlot, IF ~hasEthereum THEN Done(New("connect"), "returned")
          ELSE Issue(New("connect"), "eth_requestAccounts"))
    /\ UNCHANGED << hasEthereum, walletChain, chain, provider, signerAddress,
                    busy, deployed, logs, nativeBalance, sendRecipient,
                    sendAmount, swapAmount, calc >>

\* eth_requestAccounts with its rejection swallowed: connect goes on to
\* ensureArcNetwork whether or not the user authorized the account
ConnectRequestAccountsSwallowed(s) ==
    /\ flows[s].kind = "connect"
    /\ flows[s].pc = "eth_requestAccounts"
    /\ \/ Set(s, Issue(flows[s], "eth_chainId"))
       \/ Set(s, Issue([flows[s] EXCEPT !.failedAt = "eth_requestAccounts"],
                       "eth_chainId"))
    /\ UNCHANGED << hasEthereum, walletChain, chain, provider, signerAddress,
                    busy, deployed, logs, nativeBalance, sendRecipient,
                    sendAmount, swapAmount, calc >>

\* await prov.send('eth_requestAccounts', []) settles; a rejection leaves
\* connect as an unhandled rejection; else ensureArcNetwork starts
ConnectRequestAccounts(s) ==
    /\ flows[s].kind = "connect"
    /\ flows[s].pc = "eth_requestAccounts"
    /\ \/ Set(s, Issue(flows[s], "eth_chainId"))
       \/ Set(s, Done(Failed(flows[s]), "rejected"))
    /\ UNCHANGED << hasEthereum, walletChain, chain, provider, signerAddress,
                    busy, deployed, logs, nativeBalance, sendRecipient,
                    sendAmount, swapAmount, calc >>

\* setProvider(prov) moved before `await prov.getSigner()`: the provider is
\* set whether the signer lookup resolves or rejects
ConnectGetSignerEager(s) ==
    /\ flows[s].kind = "connect"
    /\ flows[s].pc = "getSigner"
    /\ provider' = s
    /\ \/ Set(s, Issue(flows[s], "getAddress"))
       \/ Set(s, Done(Failed(flows[s]), "rejected"))
    /\ UNCHANGED << hasEthereum, walletChain, chain, signerAddress, busy,
                    deployed, logs, nativeBalance, sendRecipient, sendAmount,
                    swapAmount, calc >>

\* await prov.getSigner() settles; then setProvider(prov) and
\* await signer.getAddress()
ConnectGetSigner(s) ==
    /\ flows[s].kind = "connect"
    /\ flows[s].pc = "getSigner"
    /\ \/ /\ provider' = s
          /\ Set(s, Issue(flows[s], "getAddress"))
       \/ /\ provider' = provider
          /\ Set(s, Done(Failed(flows[s]), "rejected"))
    /\ UNCHANGED << hasEthereum, walletChain, chain, signerAddress, busy,
                    deployed, logs, nativeBalance, sendRecipient, sendAmount,
                    swapAmount, calc >>

\* await signer.getAddress() settles: setSignerAddress; then, in the try,
\* prov.getBalance(await signer.getAddress()) (the signer holds its address:
\* getAddress resolves at once and with no request)
ConnectGetAddress(s) ==
    /\ flows[s].kind = "connect"
    /\ flows[s].pc = "getAddress"
    /\ signerAddress' = Account
    /\ Set(s, Issue(flows[s], "getBalance"))
    /\ UNCHANGED << hasEthereum, walletChain, chain, provider, busy, deployed,
                    logs, nativeBalance, sendRecipient, sendAmount,
                    swapAmount, calc >>

\* await prov.getBalance(...) settles: setNativeBalance, or the empty catch;
\* then the success entry
ConnectGetBalance(s) ==
    /\ flows[s].kind = "connect"
    /\ flows[s].pc = "getBalance"
    /\ \/ /\ \E bal \in Balances : nativeBalance' = formatUnits(bal)
          /\ Set(s, Done(flows[s], "success"))
       \/ /\ nativeBalance' = nativeBalance
          /\ Set(s, Done([flows[s] EXCEPT !.readFailed = TRUE], "success"))
    /\ logs' = pushLog(logs, LogItem("success",
                  Literal("Wallet connected and on Arc Testnet.", 36), NoHref, s))
    /\ UNCHANGED << hasEthereum, walletChain, chain, provider, signerAddress,
                    busy, deployed, sendRecipient, sendAmount, swapAmount,
                    calc >>

connect ==
    \/ ConnectClick
    \/ \E s \in Slots :
          \/ ConnectRequestAccounts(s)
          \/ ConnectGetSigner(s)
          \/ ConnectGetAddress(s)
          \/ ConnectGetBalance(s)

(***************************************************************************)
(* The actions: deploy, mint, send, swap                                   *)
(***************************************************************************)
\* a transaction as the chain has it; confirmed once a wait for it completed
Submitted(kind) == [kind |-> kind, confirmed |-> FALSE]
Confirm(txs, id) == [txs EXCEPT ![id].confirmed = TRUE]

\* a catch that swallows the error
ActionCatchSilent(s, e) ==
    /\ logs' = logs
    /\ busy' = FALSE
    /\ Set(s, Failed(flows[s]))

\* a handler with no finally: busy is cleared on the success path only
ActionCatchNoFinally(s, e) ==
    /\ logs' = pushLog(logs, LogItem("error", getErrorMessage(e), NoHref, s))
    /\ busy' = busy
    /\ Set(s, Failed(flows[s]))

\* catch (e) { pushLog({ type: 'error', message: getErrorMessage(e) }) }
\* finally { setBusy(false) }
ActionCatch(s, e) ==
    /\ logs' = pushLog(logs, LogItem("error", getErrorMessage(e), NoHref, s))
    /\ busy' = FALSE
    /\ Set(s, Failed(flows[s]))

\* a click on a button whose disabled attribute is set: the browser
\* dispatches no click event and no handler runs
DisabledClick(button) ==
    /\ CanStart
    /\ Set(NextSlot, [IdleFlow EXCEPT !.id = NextSlot, !.kind = "disabled",
                                      !.button = button, !.pc = "done"])
    /\ UNCHANGED << hasEthereum, walletChain, chain, provider, signerAddress,
                    busy, deployed, logs, nativeBalance, sendRecipient,
                    sendAmount, swapAmount, calc >>

\* the first line of each action handler, if (...) return, negated
Preflight(kind) ==
    /\ provider # 0
    /\ kind = "mintNft" => IsSet(deployed.nft)
    /\ kind \in { "mintToken", "swapUSDCtoESC" } => IsSet(deployed.token)
    /\ kind = "sendUSDC" => Truthy(sendRecipient) /\ Truthy(sendAmount)
    /\ kind = "swapUSDCtoESC" => Truthy(swapAmount)

\* the entry of an action handler: the preflight return, or setBusy(true)
\* and provider.getSigner()
ActionEntry(kind, passes, target) ==
    /\ CanStart
    /\ IF passes
       THEN /\ busy' = TRUE
            /\ Set(NextSlot, Issue([New(kind) EXCEPT !.target = target], "getSigner"))
       ELSE /\ busy' = busy
            /\ Set(NextSlot, Done(New(kind), "returned"))
    /\ UNCHANGED << hasEthereum, walletChain, chain, provider, signerAddress,
                    deployed, logs, nativeBalance, sendRecipient, sendAmount,
                    swapAmount, calc >>

\* an awaited call m that submits nothing (provider.getSigner(),
\* contract.owner()) settles in an action; the code up to the next call
\* throws or not, and then issues next
ActionAwait(s, kind, m, throws, next) ==
    /\ flows[s].kind = kind
    /\ flows[s].pc = m
    /\ \/ IF throws
          THEN ActionCatch(s, ParseError)
          ELSE /\ Set(s, Issue(flows[s], next))
               /\ UNCHANGED << logs, busy >>
       \/ \E e \in Errors : ActionCatch(s, e)
    /\ UNCHANGED << hasEthereum, walletChain, chain, provider, signerAddress,
                    deployed, nativeBalance, sendRecipient, sendAmount,
                    swapAmount, calc >>

\* the call m that submits the transaction settles: the transaction is
\* broadcast and the handler waits for it with the call w
ActionSubmit(s, kind, m, w) ==
    /\ flows[s].kind = kind
    /\ flows[s].pc = m
    /\ \/ \E hash \in BOOLEAN :
            /\ hash \/ m = "deploy"
            /\ chain' = Append(chain, Submitted(kind))
            /\ Set(s, Issue([flows[s] EXCEPT !.tx = Len(chain) + 1, !.hash = hash], w))
            /\ UNCHANGED << logs, busy >>
       \/ /\ \E e \in Errors : ActionCatch(s, e)
          /\ chain' = chain
    /\ UNCHANGED << hasEthereum, walletChain, provider, signerAddress,
                    deployed, nativeBalance, sendRecipient, sendAmount,
                    swapAmount, calc >>

\* the Deploy button with busy forgotten in its disabled attribute
DeployDisabledNoBusy == provider = 0

\* disabled={!provider || busy}
DeployDisabled == provider = 0 \/ busy

DeployKind(k) == IF k = "nft" THEN "deployNFT" ELSE "deployToken"
DeployedMessage(k) ==
    IF k = "nft" THEN Literal("Deployed SimpleNFT at address", 62)
    ELSE Literal("Deployed EscbaseToken at address", 65)

\* the Deploy button
DeployClick(k) ==
    IF DeployDisabled
    THEN DisabledClick(DeployKind(k))
    ELSE ActionEntry(DeployKind(k), Preflight(DeployKind(k)), 0)

\* waitForDeployment whose failure is not propagated: the handler goes on
\* to record the address of a deployment that was not confirmed
DeployWaitUnchecked(s, k) ==
    /\ flows[s].kind = DeployKind(k)
    /\ flows[s].pc = "waitForDeployment"
    /\ \/ chain' = Confirm(chain, flows[s].tx)
       \/ chain' = chain
    /\ Set(s, Issue(flows[s], "getAddress"))
    /\ UNCHANGED << hasEthereum, walletChain, provider, signerAddress, busy,
                    deployed, logs, nativeBalance, sendRecipient, sendAmount,
                    swapAmount, calc >>

\* await contract.waitForDeployment() settles
DeployWait(s, k) ==
    /\ flows[s].kind = DeployKind(k)
    /\ flows[s].pc = "waitForDeployment"
    /\ \/ /\ chain' = Confirm(chain, flows[s].tx)
          /\ Set(s, Issue(flows[s], "getAddress"))
          /\ UNCHANGED << logs, busy >>
       \/ /\ \E e \in Errors : ActionCatch(s, e)
          /\ chain' = chain
    /\ UNCHANGED << hasEthereum, walletChain, provider, signerAddress,
                    deployed, nativeBalance, sendRecipient, sendAmount,
                    swapAmount, calc >>

\* setDeployed({ nft: address }) with no spread of the previous value: the
\* entry of the other kind is dropped
DeployGetAddressNoSpread(s, k) ==
    /\ flows[s].kind = DeployKind(k)
    /\ flows[s].pc = "getAddress"
    /\ LET address == flows[s].tx
           withSuccess == pushLog(logs, LogItem("success", DeployedMessage(k),
                                                addressLink(address), s))
       IN /\ deployed' = [[nft |-> 0, token |-> 0] EXCEPT ![k] = address]
          /\ logs' = IF flows[s].hash
                     THEN pushLog(withSuccess,
                                  LogItem("info", Literal("Deployment tx", 13),
                                          txLink(flows[s].tx), s))
                     ELSE withSuccess
    /\ busy' = FALSE
    /\ Set(s, Done(flows[s], "success"))
    /\ UNCHANGED << hasEthereum, walletChain, chain, provider, signerAddress,
                    nativeBalance, sendRecipient, sendAmount, swapAmount,
                    calc >>

\* await contract.getAddress() settles (the address of a deployed contract
\* is the transaction that created it): setDeployed, the success entry, the
\* info entry if (deployTx?.hash), finally setBusy(false)
DeployGetAddress(s, k) ==
    /\ flows[s].kind = DeployKind(k)
    /\ flows[s].pc = "getAddress"
    /\ LET address == flows[s].tx
           withSuccess == pushLog(logs, LogItem("success", DeployedMessage(k),
                                                addressLink(address), s))
       IN /\ deployed' = [deployed EXCEPT ![k] = address]
          /\ logs' = IF flows[s].hash
                     THEN pushLog(withSuccess,
                                  LogItem("info", Literal("Deployment tx", 13),
                                          txLink(flows[s].tx), s))
                     ELSE withSuccess
    /\ busy' = FALSE
    /\ Set(s, Done(flows[s], "success"))
    /\ UNCHANGED << hasEthereum, walletChain, chain, provider, signerAddress,
                    nativeBalance, sendRecipient, sendAmount, swapAmount,
                    calc >>

Deploy(k) ==
    \/ DeployClick(k)
    \/ \E s \in Slots :
          \/ ActionAwait(s, DeployKind(k), "getSigner", FALSE, "deploy")
          \/ ActionSubmit(s, DeployKind(k), "deploy", "waitForDeployment")
          \/ DeployWait(s, k)
          \/ DeployGetAddress(s, k)

deployNFT == Deploy("nft")
deployToken == Deploy("token")

\* disabled={!provider || !deployed.nft || busy}, and the same for token
MintDisabled(k) == provider = 0 \/ ~IsSet(deployed[k]) \/ busy

MintKind(k) == IF k = "nft" THEN "mintNft" ELSE "mintToken"
MintedMessage(k) ==
    IF k = "nft" THEN Literal("Minted NFT to owner", 19)
    ELSE Literal("Minted 100 ESC to owner", 23)

\* the Mint button and its handler with the contract's address not required
MintClickWithoutAddress(k) ==
    IF provider = 0 \/ busy
    THEN DisabledClick(MintKind(k))
    ELSE ActionEntry(MintKind(k), provider # 0, deployed[k])

\* the Mint button
MintClick(k) ==
    IF MintDisabled(k)
    THEN DisabledClick(MintKind(k))
    ELSE ActionEntry(MintKind(k), Preflight(MintKind(k)), deployed[k])

\* await tx.wait() settles in a mint: the success entry, finally
\* setBusy(false)
MintWait(s, k) ==
    /\ flows[s].kind = MintKind(k)
    /\ flows[s].pc = "wait"
    /\ \/ /\ chain' = Confirm(chain, flows[s].tx)
          /\ logs' = pushLog(logs, LogItem("success", MintedMessage(k),
                                           txLink(flows[s].tx), s))
          /\ busy' = FALSE
          /\ Set(s, Done(flows[s], "success"))
       \/ /\ \E e \in Errors : ActionCatch(s, e)
          /\ chain' = chain
    /\ UNCHANGED << hasEthereum, walletChain, provider, signerAddress,
                    deployed, nativeBalance, sendRecipient, sendAmount,
                    swapAmount, calc >>

Mint(k) ==
    \/ MintClick(k)
    \/ \E s \in Slots :
          \/ ActionAwait(s, MintKind(k), "getSigner", FALSE, "owner")
          \/ ActionAwait(s, MintKind(k), "owner", FALSE, "mint")
          \/ ActionSubmit(s, MintKind(k), "mint", "wait")
          \/ MintWait(s, k)

mintNft == Mint("nft")
mintToken == Mint("token")

(***************************************************************************)
(* sendUSDC and swapUSDCtoESC: after the confirmation the success entry is *)
(* pushed and the fields are cleared, and then, still inside the try, the  *)
(* balance is read again                                                   *)
(***************************************************************************)
\* disabled={!provider || !sendRecipient || !sendAmount || busy}
SendDisabled ==
    provider = 0 \/ ~Truthy(sendRecipient) \/ ~Truthy(sendAmount) \/ busy

\* the Send button
SendClick ==
    IF SendDisabled
    THEN DisabledClick("sendUSDC")
    ELSE ActionEntry("sendUSDC", Preflight("sendUSDC"), 0)

\* sendUSDC reporting success on broadcast: the success entry is pushed
\* whether the wait for the confirmation completes or fails
SendWaitOnBroadcast(s) ==
    /\ flows[s].kind = "sendUSDC"
    /\ flows[s].pc = "wait"
    /\ \/ chain' = Confirm(chain, flows[s].tx)
       \/ chain' = chain
    /\ logs' = pushLog(logs, LogItem("success", Literal("Sent USDC", 30),
                                     txLink(flows[s].tx), s))
    /\ sendRecipient' = ""
    /\ sendAmount' = ""
    /\ Set(s, Issue(flows[s], "getBalance"))
    /\ UNCHANGED << hasEthereum, walletChain, provider, signerAddress, busy,
                    deployed, nativeBalance, swapAmount, calc >>

\* await tx.wait() settles in sendUSDC
SendWait(s) ==
    /\ flows[s].kind = "sendUSDC"
    /\ flows[s].pc = "wait"
    /\ \/ /\ chain' = Confirm(chain, flows[s].tx)
          /\ logs' = pushLog(logs, LogItem("success", Literal("Sent USDC", 30),
                                           txLink(flows[s].tx), s))
          /\ sendRecipient' = ""
          /\ sendAmount' = ""
          /\ busy' = busy
          /\ Set(s, Issue(flows[s], "getBalance"))
       \/ /\ \E e \in Errors : ActionCatch(s, e)
          /\ UNCHANGED << chain, sendRecipient, sendAmount >>
    /\ UNCHANGED << hasEthereum, walletChain, provider, signerAddress,
                    deployed, nativeBalance, swapAmount, calc >>

\* await provider.getBalance(await signer.getAddress()) settles after a
\* send or a swap: setNativeBalance, or the catch of the action
RefreshBalance(s, kind) ==
    /\ flows[s].kind = kind
    /\ flows[s].pc = "getBalance"
    /\ \/ /\ \E bal \in Balances : nativeBalance' = formatUnits(bal)
          /\ logs' = logs
          /\ busy' = FALSE
          /\ Set(s, Done(flows[s], "success"))
       \/ /\ nativeBalance' = nativeBalance
          /\ \E e \in Errors : ActionCatch(s, e)
    /\ UNCHANGED << hasEthereum, walletChain, chain, provider, signerAddress,
                    deployed, sendRecipient, sendAmount, swapAmount, calc >>

sendUSDC ==
    \/ SendClick
    \/ \E s \in Slots :
          \/ ActionAwait(s, "sendUSDC", "getSigner",
                         ParseUnitsThrows(sendAmount), "sendTransaction")
          \/ ActionSubmit(s, "sendUSDC", "sendTransaction", "wait")
          \/ SendWait(s)
          \/ RefreshBalance(s, "sendUSDC")

\* disabled={!provider || !deployed.token || !swapAmount || busy}
SwapDisabled ==
    provider = 0 \/ ~IsSet(deployed.token) \/ ~Truthy(swapAmount) \/ busy

\* the Swap button
\* the Swap button
SwapClick ==
    IF SwapDisabled
    THEN DisabledClick("swapUSDCtoESC")
    ELSE ActionEntry("swapUSDCtoESC", Preflight("swapUSDCtoESC"),
                     deployed.token)

\* await tx.wait() settles in swapUSDCtoESC
SwapWait(s) ==
    /\ flows[s].kind = "swapUSDCtoESC"
    /\ flows[s].pc = "wait"
    /\ \/ /\ chain' = Confirm(chain, flows[s].tx)
          /\ logs' = pushLog(logs, LogItem("success", Literal("Swapped USDC to ESC", 40),
                                           txLink(flows[s].tx), s))
          /\ swapAmount' = ""
          /\ busy' = busy
          /\ Set(s, Issue(flows[s], "getBalance"))
       \/ /\ \E e \in Errors : ActionCatch(s, e)
          /\ UNCHANGED << chain, swapAmount >>
    /\ UNCHANGED << hasEthereum, walletChain, provider, signerAddress,
                    deployed, nativeBalance, sendRecipient, sendAmount,
                    calc >>

swapUSDCtoESC ==
    \/ SwapClick
    \/ \E s \in Slots :
          \/ ActionAwait(s, "swapUSDCtoESC", "getSigner",
                         ParseUnitsThrows(swapAmount), "swap")
          \/ ActionSubmit(s, "swapUSDCtoESC", "swap", "wait")
          \/ SwapWait(s)
          \/ RefreshBalance(s, "swapUSDCtoESC")

(***************************************************************************)
(* The amounts of a swap: what the handler computes and shows, lines       *)
(* 201-205, and what EscbaseToken.swap mints, lines 365-370                *)
(***************************************************************************)
\* uint256 public constant SWAP_RATE = 100000
SWAP_RATE == 100000
\* the rate of the handler: BigInt(100000)
ClientRate == 100000
\* what a reverted call mints
Revert == -1

\* swap() with the multiplication in an unchecked block: the product wraps
swapUnchecked(value) ==
    IF value = 0 THEN Revert ELSE (value * SWAP_RATE) % (MaxUint + 1)

\* function swap() external payable: require(msg.value > 0);
\* escAmount = msg.value * SWAP_RATE, which reverts on overflow
\* (pragma solidity ^0.8.20); _mint(msg.sender, escAmount)
swap(value) ==
    IF value = 0 \/ value * SWAP_RATE > MaxUint THEN Revert
    ELSE value * SWAP_RATE

\* const escAmount = usdcAmount * BigInt(100000): BigInt is exact
escAmount(usdcAmount) == usdcAmount * ClientRate

\* usdcAmount = ethers.parseUnits(swapAmount, 18);
\* contract.swap({ value: usdcAmount }) is submitted
SwapSubmit ==
    /\ calc.stage = "none"
    /\ \E a \in 0..MaxAmount :
          calc' = [calc EXCEPT !.stage = "submitted", !.usdcAmount = a]
    /\ UNCHANGED << hasEthereum, walletChain, chain, provider, signerAddress,
                    busy, deployed, logs, nativeBalance, sendRecipient,
                    sendAmount, swapAmount, flows, done >>

\* the contract executes swap() with msg.value = usdcAmount
SwapMine ==
    /\ calc.stage = "submitted"
    /\ calc' = [calc EXCEPT !.minted = swap(calc.usdcAmount),
                            !.stage = IF swap(calc.usdcAmount) = Revert
                                      THEN "reverted" ELSE "mined"]
    /\ UNCHANGED << hasEthereum, walletChain, chain, provider, signerAddress,
                    busy, deployed, logs, nativeBalance, sendRecipient,
                    sendAmount, swapAmount, flows, done >>

\* await tx.wait() resolved: the amount of the success entry,
\* ethers.formatUnits(escAmount, 18)
SwapShow ==
    /\ calc.stage = "mined"
    /\ calc' = [calc EXCEPT !.stage = "shown",
                            !.shown = formatUnits(escAmount(calc.usdcAmount))]
    /\ UNCHANGED << hasEthereum, walletChain, chain, provider, signerAddress,
                    busy, deployed, logs, nativeBalance, sendRecipient,
                    sendAmount, swapAmount, flows, done >>

SwapNext == SwapSubmit \/ SwapMine \/ SwapShow

(***************************************************************************)
(* Specification                                                           *)
(***************************************************************************)
Next ==
    \/ ChangeNetwork
    \/ TypeRecipient
    \/ TypeSendAmount
    \/ TypeSwapAmount
    \/ SwitchToArc
    \/ ensureArcNetwork
    \/ connect
    \/ deployNFT
    \/ deployToken
    \/ mintNft
    \/ mintToken
    \/ sendUSDC
    \/ swapUSDCtoESC

Spec == Init /\ [][Next]_vars

\* the handlers that set busy, with what they need to pass their preflight:
\* a session, a deployed Token, a recipient and an amount
FairNext ==
    \/ TypeRecipient
    \/ TypeSendAmount
    \/ ensureArcNetwork
    \/ connect
    \/ deployToken
    \/ mintToken
    \/ sendUSDC

\* the call some invocation awaits settles, with success or with an error,
\* and the invocation runs up to its next await or returns
Settle ==
    \E s \in Slots : InFlight(s) /\ FairNext /\ flows'[s] # flows[s]

\* provider requests and waits for a confirmation keep completing while
\* any is pending; the invocations being finitely many, each completes
FairSpec == Init /\ [][FairNext]_vars /\ WF_vars(Settle)

\* the amounts of one swap, for every amount up to MaxAmount
SwapSpec == Init /\ [][SwapNext]_vars

(***************************************************************************)
(* Properties                                                              *)
(***************************************************************************)
EnsurePcs == { "eth_chainId", "wallet_switchEthereumChain",
               "wallet_addEthereumChain", "retry_switchEthereumChain" }
DeployKinds == { "deployNFT", "deployToken" }
SubmitPcs == TxMethods
WaitPcs == { "wait", "waitForDeployment" }

\* the handler invocations the state knows: those in flight, and the one
\* that has just returned
Known == { flows[s] : s \in { t \in Slots : InFlight(t) } }
            \cup (IF done.pc = "done" THEN { done } ELSE { })

\* the entries an invocation pushed, head first
EntriesIn(log, id) == SelectSeq(log, LAMBDA item : item.by = id)
EntriesBy(id) == EntriesIn(logs, id)
Types(seq) == [i \in 1..Len(seq) |-> seq[i].type]

ActionsInFlight == { s \in Slots : InFlight(s) /\ flows[s].kind \in ActionKinds }

\* C1: no deploy, mint, transfer or swap request is issued to the provider
\* unless the wallet is on the target network at that moment, also when the
\* user changed the wallet's network after a successful connect.
C1_NoTxOffTarget == \A f \in Known : ~f.offTarget

\* C2: triggering an action while busy is a no-op.  While busy is true no
\* action handler is entered: the step starts no action, leaves the log as
\* long as it was unless a handler already in flight pushes to it, and
\* nothing is queued, so that at most one action is ever in flight.
C2_BusyIsNoOp ==
    /\ [](Cardinality(ActionsInFlight) <= 1)
    /\ [][busy =>
            \A s \in Slots :
                flows[s].pc = "idle" =>
                    /\ flows'[s].kind \notin ActionKinds
                    /\ done'.kind \in ActionKinds => done'.id # s]_vars

\* C2 witness: an action is in flight, busy is true, and the user has a
\* button to press whose other conditions are all met
C2_Witness ==
    /\ busy
    /\ ActionsInFlight # { }
    /\ CanStart
    /\ provider # 0 /\ Truthy(sendRecipient) /\ Truthy(sendAmount)

\* the contract kind of a deploy handler
KindOfDeploy(kind) == IF kind = "deployNFT" THEN "nft" ELSE "token"

\* C3: DeployedContracts[kind] is set only to the address of a confirmed
\* deployment of that kind, it is written only after waitForDeployment
\* completed, a deployment that completes sets it, and one that fails leaves
\* it as it was.
C3_DeployedIffConfirmed ==
    /\ [](\A k \in { "nft", "token" } :
            IsSet(deployed[k]) =>
                /\ deployed[k] \in 1..Len(chain)
                /\ chain[deployed[k]].kind = DeployKind(k)
                /\ chain[deployed[k]].confirmed)
    /\ [](done.kind \in DeployKinds /\ done.out = "success" =>
            /\ chain[done.tx].confirmed
            /\ deployed[KindOfDeploy(done.kind)] = done.tx)
    /\ [][/\ deployed' # deployed =>
                \E s \in Slots :
                    /\ flows[s].kind \in DeployKinds
                    /\ flows[s].pc = "getAddress"
                    /\ chain[flows[s].tx].confirmed
                    /\ done'.id = s
                    /\ deployed' = [deployed EXCEPT
                           ![KindOfDeploy(flows[s].kind)] = flows[s].tx]
          /\ done'.kind \in DeployKinds /\ done'.out = "failed" =>
                deployed' = deployed]_vars

\* C3 witness: a deployment was confirmed and its address recorded, after a
\* deployment of the same kind that failed
C3_Witness ==
    /\ done.kind = "deployToken" /\ done.out = "success"
    /\ deployed.token = done.tx
    /\ done.tx > 1
    /\ chain[1].kind = "deployToken" /\ ~chain[1].confirmed

\* the success entries that report a transaction
TxSuccessEntries ==
    { i \in 1..Len(logs) : logs[i].type = "success" /\ logs[i].href[1] = "tx" }

\* C4: a success entry of a mint, a transfer or a swap is in the log only if
\* the wait for its transaction completed, and an invocation whose
\* confirmation failed has pushed no success entry.
C4_SuccessOnlyAfterConfirmation ==
    /\ \A i \in TxSuccessEntries :
            /\ logs[i].href[2] \in 1..Len(chain)
            /\ chain[logs[i].href[2]].confirmed
            /\ chain[logs[i].href[2]].kind \in
                  { "mintNft", "mintToken", "sendUSDC", "swapUSDCtoESC" }
    /\ done.failedAt = "wait" =>
            /\ ~chain[done.tx].confirmed
            /\ Types(EntriesBy(done.id)) = << "error" >>

\* C4 witness: a transfer was broadcast and its confirmation failed, after
\* a transfer whose success entry is in the log
C4_Witness ==
    /\ done.kind = "sendUSDC" /\ done.failedAt = "wait"
    /\ \E i \in TxSuccessEntries : chain[logs[i].href[2]].kind = "sendUSDC"

Switch == "wallet_switchEthereumChain"
Add == "wallet_addEthereumChain"
\* the switch and add requests of an invocation, in the order of their issue
EnsureReqs(f) == SelectSeq(f.reqs, LAMBDA m : m \in { Switch, Add })

\* C5 as claimed: once the first switch failed with the unrecognized-network
\* error, the reconciliation issues exactly one add and then exactly one
\* retry switch.
C5_AddThenRetryAlways ==
    \A f \in Known :
        f.unrecognized /\ f.pc \notin EnsurePcs =>
            EnsureReqs(f) = << Switch, Add, Switch >>

\* C5 amended: once the first switch failed with the unrecognized-network
\* error, exactly one add is issued; the one retry switch follows it if the
\* add succeeds and no retry is issued if the add fails; nothing further is
\* issued whether the retry succeeds or fails.
C5_AddThenRetryIfAdded ==
    \A f \in Known :
        f.unrecognized =>
            EnsureReqs(f) =
                IF f.pc = Add \/ f.failedAt = Add
                THEN << Switch, Add >>
                ELSE << Switch, Add, Switch >>

\* C5 witness: the retry switch was issued and failed
C5_Witness ==
    /\ done.unrecognized
    /\ done.failedAt = "retry_switchEthereumChain"

\* C6: when the network id read equals the target in some spelling of its
\* hex digits, the reconciliation returns true with no switch and no add
\* request and pushes nothing: the Switch to Arc handler has issued the one
\* read, connect goes on to getSigner.
C6_AlreadyOnTarget ==
    \A f \in Known :
        f.sawArc =>
            /\ EnsureReqs(f) = << >>
            /\ f.failedAt \notin EnsurePcs
            /\ f.out # "failed"
            /\ \A i \in 1..Len(logs) : logs[i].by = f.id => logs[i].type # "error"
            /\ f.kind = "switchToArc" =>
                  /\ f.out = "success"
                  /\ f.reqs = << "eth_chainId" >>
                  /\ EntriesBy(f.id) = << >>
            /\ f.kind = "connect" =>
                  /\ Len(f.reqs) >= 3
                  /\ f.reqs[3] = "getSigner"

\* C6 witness: Switch to Arc returned on a wallet already on the target
C6_Witness == done.kind = "switchToArc" /\ done.sawArc

\* C7: a reconciliation that fails pushes exactly one error entry and
\* returns false, and the connect that called it returns: no provider, no
\* account, no balance is set, no success entry pushed, no signer or
\* transaction requested.
C7_ReconcileFailureAborts ==
    [][done'.kind \in { "connect", "switchToArc" }
         /\ done'.failedAt \in EnsurePcs =>
            /\ done'.out = "failed"
            /\ Len(logs') = Len(logs) + 1
            /\ logs'[1].type = "error" /\ logs'[1].by = done'.id
            /\ SubSeq(logs', 2, Len(logs')) = logs
            /\ Types(EntriesIn(logs', done'.id)) = << "error" >>
            /\ provider' = provider /\ provider' # done'.id
            /\ signerAddress' = signerAddress
            /\ nativeBalance' = nativeBalance
            /\ \A i \in 1..Len(done'.reqs) :
                  done'.reqs[i] \notin TxMethods \cup { "getSigner", "getBalance" }]_vars

\* C7 witness: connect returned because the add-network request failed
C7_Witness ==
    /\ done.kind = "connect"
    /\ done.failedAt = "wallet_addEthereumChain"
    /\ provider = 0

C9_ReadFailureNonFatal ==
    done.readFailed \/ done.failedAt = "getBalance" =>
        /\ \A i \in 1..Len(logs) : logs[i].by = done.id => logs[i].type # "error"
        /\ done.out = "success"

IsMintTokenSuccess(item) ==
    item.type = "success" /\ item.message = MintedMessage("token")
IsDeployTokenSuccess(item) ==
    item.type = "success" /\ item.message = DeployedMessage("token")
\* entries pushed by the catch of ensureArcNetwork and by connect
IsConnectEntry(item) ==
    item.message.text \in { "Wallet connected and on Arc Testnet.",
                            "Failed to switch to Arc Testnet: unknown error",
                            "Failed to switch to Arc Testnet: message" }

\* a Token mint has just succeeded, and the entry below its own is one of
\* the deployment of the Token contract it minted from
MintRightAfterDeploy ==
    /\ done.kind = "mintToken" /\ done.out = "success"
    /\ Len(logs) >= 2
    /\ logs[1].by = done.id
    /\ logs[2].href \in { txLink(done.target), addressLink(done.target) }

\* C10 as claimed: after a Token deployment and then a Token mint, the head
\* of the log is the mint success entry and the second entry is the deploy
\* success entry.
C10_DeploySuccessIsSecond ==
    MintRightAfterDeploy =>
        /\ IsMintTokenSuccess(logs[1])
        /\ IsDeployTokenSuccess(logs[2])

\* C10 amended: after a Token deployment and then a Token mint, the head of
\* the log is the mint success entry; the deploy success entry is second if
\* the deployment transaction carried no hash, and third, below the
\* deployment's info entry, if it did.  The entries of a later action all
\* precede those of an earlier one, and a successful action's entries are
\* its success entry, below the info entry if it pushed one.
C10_MostRecentFirst ==
    /\ MintRightAfterDeploy =>
          /\ IsMintTokenSuccess(logs[1])
          /\ IF logs[2].type = "info"
             THEN /\ logs[2].href = txLink(done.target)
                  /\ Len(logs) >= 3
                  /\ IsDeployTokenSuccess(logs[3])
                  /\ logs[3].href = addressLink(done.target)
                  /\ logs[3].by = logs[2].by
             ELSE /\ IsDeployTokenSuccess(logs[2])
                  /\ logs[2].href = addressLink(done.target)
    /\ \A i, j \in 1..Len(logs) :
          i < j /\ ~IsConnectEntry(logs[i]) /\ ~IsConnectEntry(logs[j]) =>
              logs[i].by >= logs[j].by
    /\ done.kind \in ActionKinds /\ done.out = "success" =>
          Types(EntriesBy(done.id)) \in
              { << "success" >>, << "info", "success" >> }

\* C10 witness: the mint succeeded right after a deployment that pushed its
\* info entry
C10_Witness == MintRightAfterDeploy /\ logs[2].type = "info"

\* the button clicked in a step that uses the slot s: the button of the
\* handler that was entered, or the disabled button
Clicked(f, d) == IF f.pc = "done" THEN (IF d.kind = "disabled" THEN d.button ELSE d.kind)
                 ELSE f.kind

\* C11: an action triggered while its preflight precondition fails (no
\* session; no deployed address of the contract it calls; an empty field it
\* reads) aborts at once: it issues no request to the provider, no handler
\* is left in flight, and busy, the deployed contracts, the log and the
\* chain are as they were.
C11_PreflightFailureIsInert ==
    [][\A s \in Slots :
          /\ flows[s].pc = "idle" /\ flows'[s].pc # "idle"
          /\ Clicked(flows'[s], done') \in ActionKinds
          /\ ~Preflight(Clicked(flows'[s], done'))
          => /\ flows'[s].pc = "done"
             /\ done'.reqs = << >>
             /\ done'.tx = 0
             /\ busy' = busy
             /\ deployed' = deployed
             /\ logs' = logs
             /\ chain' = chain
             /\ \A t \in Slots \ { s } : flows'[t] = flows[t]]_vars

\* C11 witness: with a session and a recipient and an amount typed, but no
\* Token deployed, the Swap button has just been clicked
C11_Witness ==
    /\ done.kind = "disabled" /\ done.button = "swapUSDCtoESC"
    /\ provider # 0 /\ ~IsSet(deployed.token)
    /\ Truthy(sendRecipient) /\ Truthy(sendAmount)
    /\ ~busy

\* C12: when the user rejects the account authorization of connect, connect
\* ends there, the same way every time: eth_requestAccounts is the only
\* request it issued (no eth_chainId, no switch, no add), it pushed no log
\* entry at all, and it set neither provider nor signerAddress; busy, the
\* deployed contracts and the balance are as they were.
C12_RejectedAuthorization ==
    [][done'.kind = "connect" /\ done'.failedAt = "eth_requestAccounts" =>
          /\ done'.reqs = << "eth_requestAccounts" >>
          /\ done'.out = "rejected"
          /\ logs' = logs
          /\ EntriesIn(logs', done'.id) = << >>
          /\ provider' = provider /\ provider' # done'.id
          /\ signerAddress' = signerAddress
          /\ busy' = busy /\ deployed' = deployed
          /\ nativeBalance' = nativeBalance /\ chain' = chain]_vars

\* C12 witness: the only connect so far has just ended on the rejected
\* authorization
C12_Witness ==
    /\ done.kind = "connect" /\ done.failedAt = "eth_requestAccounts"
    /\ provider = 0 /\ signerAddress = "" /\ logs = << >>

\* C13: with no window.ethereum, connect returns before its first request:
\* no handler is ever in flight and none has issued a request, and the
\* session, busy, the deployed contracts, the log, the balance and the chain
\* stay as constructed, so the preflight of every action fails and a click
\* on an action's button runs no handler.
C13_NoInjectedProvider ==
    ~hasEthereum =>
        /\ \A s \in Slots : ~InFlight(s)
        /\ \A f \in Known : f.reqs = << >> /\ f.kind \in { "connect", "disabled" }
        /\ done.kind = "connect" => done.out = "returned"
        /\ provider = 0 /\ signerAddress = "" /\ ~busy
        /\ deployed = [nft |-> 0, token |-> 0]
        /\ logs = << >> /\ chain = << >> /\ nativeBalance = NoBalance
        /\ \A kind \in ActionKinds : ~Preflight(kind)

\* C13 witness: with no window.ethereum, connect has just returned
C13_Witness ==
    ~hasEthereum /\ done.kind = "connect" /\ done.out = "returned"

\* the number a decimal text denotes, in the smallest unit
UnitsOf(text) == text[1] * Unit + text[2]

\* C14: for every swap amount A in the smallest native unit, the amount in
\* the success entry denotes A * 100000 exactly, and it is the amount the
\* contract minted for msg.value = A; the contract mints msg.value *
\* SWAP_RATE whenever msg.value is positive and the product fits in its
\* integer width, and reverts only otherwise, in which case no success entry
\* is shown.
C14_ShownIsMinted ==
    /\ calc.stage \in { "mined", "shown" } =>
          /\ calc.minted = calc.usdcAmount * 100000
          /\ calc.minted <= MaxUint
    /\ calc.stage = "shown" =>
          /\ UnitsOf(calc.shown) = calc.usdcAmount * 100000
          /\ UnitsOf(calc.shown) = calc.minted
          /\ calc.shown[2] \in 0..(Unit - 1)
    /\ calc.stage = "reverted" =>
          calc.usdcAmount = 0 \/ calc.usdcAmount * 100000 > MaxUint

\* C14 witness: a success entry shows an amount with a whole part and a
\* fraction, for the largest amount whose product fits in the integer width
C14_Witness ==
    /\ calc.stage = "shown"
    /\ calc.shown[1] > 0 /\ calc.shown[2] > 0
    /\ (calc.usdcAmount + 1) * 100000 > MaxUint

\* C15: no two flows run in parallel.  While busy is true no connect and no
\* Switch to Arc reconciliation is in flight (none can start, issue a
\* request or push an entry), and at most one connect is in flight at any
\* time.
C15_NoParallelFlows ==
    /\ busy => \A s \in Slots : InFlight(s) => flows[s].kind \in ActionKinds
    /\ Cardinality({ s \in Slots : InFlight(s) /\ flows[s].kind = "connect" }) <= 1

\* C16: busy is true exactly while an action handler is in flight, between
\* its preflight and its return, and, every awaited request and wait
\* eventually settling, a handler that set busy eventually clears it and
\* returns, whether it succeeds or fails.
C16_BusyExactlyInFlight ==
    /\ [](busy <=> ActionsInFlight # { })
    /\ busy ~> ~busy

\* C16 witness: a sendUSDC that set busy has just returned through its
\* catch, and busy is clear
C16_Witness ==
    /\ done.kind = "sendUSDC" /\ done.out = "failed"
    /\ ~busy /\ ActionsInFlight = { }

\* C17: the log is prepend-only.  Every step leaves the log as it was or
\* adds one or two entries at its head, the log before the step being the
\* rest of the log after it: no entry is removed, moved or changed, also
\* not an entry that reads the same as one being added.  A handler that
\* fails in its catch adds its entry whatever the log already holds.
C17_PrependOnly ==
    [][/\ \/ logs' = logs
          \/ /\ Len(logs') \in { Len(logs) + 1, Len(logs) + 2 }
             /\ SubSeq(logs', Len(logs') - Len(logs) + 1, Len(logs')) = logs
       /\ done'.out = "failed" =>
             /\ Len(logs') = Len(logs) + 1
             /\ logs'[1].by = done'.id]_vars

\* C17 witness: the two entries at the head of the log read the same, and
\* two handlers pushed them
C17_Witness ==
    /\ Len(logs) >= 3
    /\ SameContent(logs[1], logs[2])
    /\ logs[1].by # logs[2].by
    /\ done.out = "failed" /\ done.id = logs[1].by

\* the other contract kind
OtherKind(k) == IF k = "nft" THEN "token" ELSE "nft"

\* C18: deployed is written only by a deployment that succeeded, and only
\* its own entry: an entry that is set stays set in every later state, an
\* entry changes only in the step in which a deployment of that kind
\* returns with success, to the address of that confirmed deployment, and
\* that step leaves the entry of the other kind as it was, in whichever
\* order the two kinds are deployed.
C18_DeployedOnlyGrows ==
    [][\A k \in { "nft", "token" } :
          /\ IsSet(deployed[k]) => IsSet(deployed'[k])
          /\ deployed'[k] # deployed[k] =>
                /\ done'.kind = DeployKind(k) /\ done'.out = "success"
                /\ deployed'[k] = done'.tx
                /\ chain'[done'.tx].kind = DeployKind(k)
                /\ chain'[done'.tx].confirmed
          /\ done'.kind = DeployKind(k) =>
                deployed'[OtherKind(k)] = deployed[OtherKind(k)]]_vars

\* C18 witness: a deployment of the NFT has just succeeded with the Token
\* deployed before it, and both entries are set
C18_Witness ==
    /\ done.kind = "deployNFT" /\ done.out = "success"
    /\ IsSet(deployed.nft) /\ IsSet(deployed.token)
    /\ deployed.token < deployed.nft

\* C19: every error entry of the log carries a message of bounded length,
\* at most 180 characters and an ellipsis, whether an action or the network
\* reconciliation logged it.
C19_ErrorMessagesBounded ==
    \A i \in 1..Len(logs) :
        logs[i].type = "error" => logs[i].message.len <= MaxMessage + 1

\* the 'Wallet connected' success entry of the connect that set the provider
HasConnectedEntry ==
    \E i \in 1..Len(logs) :
        /\ logs[i].type = "success"
        /\ logs[i].message.text = "Wallet connected and on Arc Testnet."
        /\ logs[i].by = provider

\* C20: session establishment is all-or-nothing.  In every reachable state
\* the provider is set only if the account is set too and the 'Wallet
\* connected' success entry of that connect is in the log.
C20_SessionAllOrNothing ==
    provider # 0 => signerAddress # "" /\ HasConnectedEntry

\* C20 amended: the provider is set only by a connect, in the step in which
\* its signer lookup resolves, after its authorization and its network
\* reconciliation succeeded; the account is set in the next step of that
\* connect and the 'Wallet connected' entry is pushed when it returns, after
\* the balance read, so that the provider comes with the account and the
\* entry once that connect has returned.  A connect that ends on a failed
\* authorization, reconciliation or signer lookup has not set the provider.
C20_SessionOnceConnectReturned ==
    /\ [][provider' # provider =>
             /\ provider' \in Slots
             /\ flows[provider'].kind = "connect"
             /\ flows[provider'].pc = "getSigner"
             /\ flows[provider'].failedAt = ""
             /\ flows'[provider'].pc = "getAddress"]_vars
    /\ [](provider # 0 /\ signerAddress = "" =>
             flows[provider].kind = "connect" /\ flows[provider].pc = "getAddress")
    /\ [](provider # 0 /\ ~HasConnectedEntry =>
             /\ flows[provider].kind = "connect"
             /\ flows[provider].pc \in { "getAddress", "getBalance" })
    /\ [](provider # 0 /\ ~InFlight(provider) =>
             signerAddress = Account /\ HasConnectedEntry)
    /\ [](done.kind = "connect" /\ done.out # "success" =>
             /\ provider # done.id
             /\ Types(EntriesBy(done.id)) \in { << >>, << "error" >> })
    /\ [](done.kind = "connect" /\ done.out = "success" =>
             /\ done.failedAt = ""
             /\ signerAddress = Account
             /\ \E i \in 1..Len(logs) :
                   IsConnectEntry(logs[i]) /\ logs[i].type = "success"
                      /\ logs[i].by = done.id)

\* C20 witness: the connect that set the provider has just returned, with
\* the account set and its success entry at the head of the log
C20_Witness ==
    /\ done.kind = "connect" /\ done.out = "success"
    /\ provider = done.id
    /\ signerAddress = Account
    /\ HasConnectedEntry /\ logs[1].by = done.id

====
